---------------------------- MODULE Spec2Model ----------------------------
(***************************************************************************)
(* Universal Unit Converter API (src/unit_converter_backend/src/api/main.py)*)
(*                                                                         *)
(* The service handles independent requests; nothing is shared between     *)
(* them.  The model follows one request at a time through its handler:     *)
(* POST /convert, POST /currency/convert and GET /currency/symbols.        *)
(*                                                                         *)
(* Numbers are Python floats, i.e. IEEE-754 binary64 with round-to-nearest *)
(* ties-to-even.  They are modelled bit for bit: a float is a sign, a      *)
(* 53-bit significand held as an arbitrary-precision natural and a binary  *)
(* exponent, and every arithmetic operation computes the exact result and  *)
(* rounds it once, as the hardware does.                                   *)
(***************************************************************************)
EXTENDS Integers, Sequences, FiniteSets, TLC

(***************************************************************************)
(* Arbitrary-precision naturals: little-endian sequences of limbs in base  *)
(* 2^15, without leading (high) zero limbs; zero is the empty sequence.    *)
(***************************************************************************)
LimbBits == 3 * 5

Base == 2^LimbBits

Max(x, y) == IF x >= y THEN x ELSE y

Min(x, y) == IF x <= y THEN x ELSE y

(***************************************************************************)
(* Function calls.  Call(f, a) is the call of the function named f with    *)
(* the argument tuple a.  The functions that compute with floats are       *)
(* called through it: FMul(x, y) is the call and FMulDef(x, y) is what the *)
(* call computes.  A call through Call is one node of the formula TLC      *)
(* builds for an action, whatever the size of the function called.         *)
(***************************************************************************)
RECURSIVE Call(_, _)

BNorm(a) == Call("BNorm", <<a>>)

BFromInt(n) == Call("BFromInt", <<n>>)

BShlLimbs(a, n) == Call("BShlLimbs", <<a, n>>)

BAdd(a, b) == Call("BAdd", <<a, b>>)

BSub(a, b) == Call("BSub", <<a, b>>)

BCmp(a, b) == Call("BCmp", <<a, b>>)

BMulInt(a, k) == Call("BMulInt", <<a, k>>)

SumFn(f, lo, hi) == Call("SumFn", <<f, lo, hi>>)

BMul(a, b) == Call("BMul", <<a, b>>)

BShl(a, k) == Call("BShl", <<a, k>>)

BShr(a, k) == Call("BShr", <<a, k>>)

IntBitLen(n) == Call("IntBitLen", <<n>>)

BBitLen(a) == Call("BBitLen", <<a>>)

BBit(a, i) == Call("BBit", <<a, i>>)

BLowBits(a, k) == Call("BLowBits", <<a, k>>)

BOdd(a) == Call("BOdd", <<a>>)

BDigit(r, d, lo, hi) == Call("BDigit", <<r, d, lo, hi>>)

BDivFrom(st, b, i) == Call("BDivFrom", <<st, b, i>>)

BDivMod(a, b) == Call("BDivMod", <<a, b>>)

BPow10(k) == Call("BPow10", <<k>>)

RoundBits(neg, q, sticky, e) == Call("RoundBits", <<neg, q, sticky, e>>)

RoundRat(neg, n, d, e) == Call("RoundRat", <<neg, n, d, e>>)

Lit(neg, digits, exp10) == Call("Lit", <<neg, digits, exp10>>)

FInt(n) == Call("FInt", <<n>>)

FNeg(x) == Call("FNeg", <<x>>)

FAbs(x) == Call("FAbs", <<x>>)

MagCmp(x, y) == Call("MagCmp", <<x, y>>)

FLt(x, y) == Call("FLt", <<x, y>>)

FEq(x, y) == Call("FEq", <<x, y>>)

FMul(x, y) == Call("FMul", <<x, y>>)

FDiv(x, y) == Call("FDiv", <<x, y>>)

FAdd(x, y) == Call("FAdd", <<x, y>>)

FSub(x, y) == Call("FSub", <<x, y>>)

PyRound(x, ndigits) == Call("PyRound", <<x, ndigits>>)

FBelow(x) == Call("FBelow", <<x>>)

ScaleConvert(units, value, from_unit, to_unit) ==
  Call("ScaleConvert", <<units, value, from_unit, to_unit>>)

convert_temperature(value, from_unit, to_unit) ==
  Call("convert_temperature", <<value, from_unit, to_unit>>)

round_result(value) == Call("round_result", <<value>>)

\* a without its high zero limbs
BNormDef(a) ==
  LET nz == {i \in 1..Len(a) : a[i] # 0}
  IN  IF nz = {} THEN <<>>
      ELSE SubSeq(a, 1, CHOOSE i \in nz : \A j \in nz : j <= i)

BFromIntDef(n) == IF n = 0 THEN <<>> ELSE <<n % Base>> \o BFromInt(n \div Base)

BLimb(a, i) == IF i >= 1 /\ i <= Len(a) THEN a[i] ELSE 0

BShlLimbsDef(a, n) == IF a = <<>> THEN <<>> ELSE [i \in 1..n |-> 0] \o a

\* a + b: limb sums, then the carries (a carry enters limb i + 1 when a limb
\* j <= i overflows and every limb between them is full)
BAddDef(a, b) ==
  LET n == Max(Len(a), Len(b))
      s == [i \in 1..n |-> BLimb(a, i) + BLimb(b, i)]
      c == [i \in 0..n |->
             \E j \in 1..i : s[j] >= Base /\ \A k \in (j + 1)..i : s[k] = Base - 1]
  IN  BNorm([i \in 1..(n + 1) |->
              ((IF i <= n THEN s[i] ELSE 0) + (IF c[i - 1] THEN 1 ELSE 0)) % Base])

\* a - b for a >= b: limb differences, then the borrows
BSubDef(a, b) ==
  LET n == Len(a)
      d == [i \in 1..n |-> a[i] - BLimb(b, i)]
      c == [i \in 0..n |->
             \E j \in 1..i : d[j] < 0 /\ \A k \in (j + 1)..i : d[k] = 0]
  IN  BNorm([i \in 1..n |-> (d[i] - (IF c[i - 1] THEN 1 ELSE 0) + Base) % Base])

\* -1, 0, 1 as a < b, a = b, a > b
BCmpDef(a, b) ==
  IF Len(a) < Len(b) THEN -1
  ELSE IF Len(a) > Len(b) THEN 1
  ELSE LET df == {i \in 1..Len(a) : a[i] # b[i]}
       IN  IF df = {} THEN 0
           ELSE LET i == CHOOSE i \in df : \A j \in df : j <= i
                IN  IF a[i] < b[i] THEN -1 ELSE 1

\* a * k for 0 <= k < Base
BMulIntDef(a, k) ==
  IF k = 0 \/ a = <<>> THEN <<>>
  ELSE BAdd(BNorm([i \in 1..Len(a) |-> (a[i] * k) % Base]),
            BShlLimbs(BNorm([i \in 1..Len(a) |-> (a[i] * k) \div Base]), 1))

\* the sum of f[lo], ..., f[hi]
SumFnDef(f, lo, hi) ==
  IF lo > hi THEN 0
  ELSE IF lo = hi THEN f[lo]
  ELSE LET mid == (lo + hi) \div 2
       IN  SumFn(f, lo, mid) + SumFn(f, mid + 1, hi)

\* a * b: column sums of the limb products, then the carries
BMulDef(a, b) ==
  IF a = <<>> \/ b = <<>> THEN <<>>
  ELSE
    LET n == Len(a) + Len(b)
        col(t) == [i \in Max(1, t + 1 - Len(b))..Min(Len(a), t) |->
                    a[i] * b[t + 1 - i]]
        lo == [t \in 1..n |->
                IF t = n THEN 0
                ELSE LET f == col(t)
                     IN  SumFn([i \in DOMAIN f |-> f[i] % Base],
                               Max(1, t + 1 - Len(b)), Min(Len(a), t))]
        hi == [t \in 0..n |->
                IF t = 0 \/ t = n THEN 0
                ELSE LET f == col(t)
                     IN  SumFn([i \in DOMAIN f |-> f[i] \div Base],
                               Max(1, t + 1 - Len(b)), Min(Len(a), t))]
        c  == [t \in 1..n |-> lo[t] + hi[t - 1]]
    IN  BAdd(BNorm([t \in 1..n |-> c[t] % Base]),
             BShlLimbs(BNorm([t \in 1..n |-> c[t] \div Base]), 1))

\* a * 2^k
BShlDef(a, k) == BShlLimbs(BMulInt(a, 2^(k % LimbBits)), k \div LimbBits)

\* floor(a / 2^k)
BShrDef(a, k) ==
  LET n == k \div LimbBits
      r == k % LimbBits
      len == Len(a) - n
  IN  IF len <= 0 THEN <<>>
      ELSE BNorm([i \in 1..len |->
                   (a[i + n] \div 2^r)
                   + (BLimb(a, i + n + 1) % 2^r) * 2^(LimbBits - r)])

IntBitLenDef(n) == IF n = 0 THEN 0 ELSE 1 + IntBitLen(n \div 2)

BBitLenDef(a) ==
  IF a = <<>> THEN 0 ELSE LimbBits * (Len(a) - 1) + IntBitLen(a[Len(a)])

\* bit i of a, bit 0 the lowest
BBitDef(a, i) ==
  IF i < 0 THEN 0
  ELSE (BLimb(a, i \div LimbBits + 1) \div 2^(i % LimbBits)) % 2

\* whether one of the k lowest bits of a is set
BLowBitsDef(a, k) == k > 0 /\ BShl(BShr(a, k), k) # a

BOddDef(a) == BBit(a, 0) = 1

\* the largest k in lo..hi with d * k <= r, given d * lo <= r
BDigitDef(r, d, lo, hi) ==
  IF lo >= hi THEN lo
  ELSE LET mid == (lo + hi + 1) \div 2
       IN  IF BCmp(BMulInt(d, mid), r) <= 0
           THEN BDigit(r, d, mid, hi)
           ELSE BDigit(r, d, lo, mid - 1)

\* Long division by b whose highest limb is at least Base / 2, one limb of the
\* quotient at a time from the highest.  The quotient limb is at most the
\* quotient of the two highest limbs of the remainder by the highest limb of
\* b, and at least that minus 2.
BDivFromDef(st, b, i) ==
  IF i < 1 THEN st
  ELSE LET d   == BShlLimbs(b, i - 1)
           top == Len(b) + i - 1
           est == (BLimb(st.r, top + 1) * Base + BLimb(st.r, top)) \div b[Len(b)]
           hi  == Min(Base - 1, est)
           k   == BDigit(st.r, d, Max(0, hi - 2), hi)
       IN  BDivFrom([q |-> BAdd(BShlLimbs(st.q, 1), BFromInt(k)),
                     r |-> BSub(st.r, BMulInt(d, k))], b, i - 1)

\* quotient and remainder of a by b (b > 0)
BDivModDef(a, b) ==
  IF b = <<1>> THEN [q |-> a, r |-> <<>>]
  ELSE LET s  == LimbBits - IntBitLen(b[Len(b)])
           a1 == BShl(a, s)
           b1 == BShl(b, s)
           st == BDivFrom([q |-> <<>>, r |-> a1], b1, Len(a1) - Len(b1) + 1)
       IN  [q |-> st.q, r |-> BShr(st.r, s)]

BPow10Def(k) ==
  IF k = 0 THEN <<1>>
  ELSE LET h  == BPow10(k \div 2)
           sq == BMul(h, h)
       IN  IF k % 2 = 1 THEN BMulInt(sq, 10) ELSE sq

(***************************************************************************)
(* Python floats (IEEE-754 binary64).  A finite float is                   *)
(* (-1)^neg * m * 2^e with m < 2^MantBits; a normal one has exactly        *)
(* MantBits bits in m, a subnormal one has e = EMin, zero has m = 0 and    *)
(* e = 0.  The other classes are "inf" and "nan".                          *)
(***************************************************************************)
MantBits == 53

EMin == -1074

EMax == 971

FZero(neg) == [cls |-> "fin", neg |-> neg, m |-> <<>>, e |-> 0]

FInf(neg) == [cls |-> "inf", neg |-> neg, m |-> <<>>, e |-> 0]

FNaN == [cls |-> "nan", neg |-> FALSE, m |-> <<>>, e |-> 0]

IsFinite(x) == x.cls = "fin"

IsZero(x) == x.cls = "fin" /\ x.m = <<>>

\* The float nearest to (-1)^neg * (q + t) * 2^e, where 0 <= t < 1 and
\* sticky says whether t > 0: round to nearest, ties to even, with gradual
\* underflow and overflow to infinity.
RoundBitsDef(neg, q, sticky, e) ==
  IF q = <<>> /\ ~sticky THEN FZero(neg)
  ELSE
    LET drop == Max(BBitLen(q) - MantBits, EMin - e)
    IN  IF drop <= 0
        THEN LET up == Min(MantBits - BBitLen(q), e - EMin)
             IN  IF e - up > EMax THEN FInf(neg)
                 ELSE [cls |-> "fin", neg |-> neg, m |-> BShl(q, up), e |-> e - up]
        ELSE
          LET keep  == BShr(q, drop)
              half  == BBit(q, drop - 1) = 1
              rest  == sticky \/ BLowBits(q, drop - 1)
              m1    == IF half /\ (rest \/ BOdd(keep))
                       THEN BAdd(keep, <<1>>) ELSE keep
              carry == BBitLen(m1) > MantBits
              m2    == IF carry THEN BShr(m1, 1) ELSE m1
              e2    == IF carry THEN e + drop + 1 ELSE e + drop
          IN  IF m2 = <<>> THEN FZero(neg)
              ELSE IF e2 > EMax THEN FInf(neg)
              ELSE [cls |-> "fin", neg |-> neg, m |-> m2, e |-> e2]

\* The float nearest to (-1)^neg * (n / d) * 2^e, for naturals n and d > 0.
RoundRatDef(neg, n, d, e) ==
  IF n = <<>> THEN FZero(neg)
  ELSE
    LET s  == (MantBits + 2) - (BBitLen(n) - BBitLen(d))
        dm == IF s >= 0 THEN BDivMod(BShl(n, s), d)
                        ELSE BDivMod(n, BShl(d, 0 - s))
    IN  RoundBits(neg, dm.q, dm.r # <<>>, e - s)

\* The float literal [-]digits * 10^exp10, as Python parses it.
LitDef(neg, digits, exp10) ==
  IF exp10 >= 0
  THEN RoundBits(neg, BMul(BFromInt(digits), BPow10(exp10)), FALSE, 0)
  ELSE RoundRat(neg, BFromInt(digits), BPow10(0 - exp10), 0)

\* float(n) of a Python int
FIntDef(n) == IF n < 0 THEN Lit(TRUE, 0 - n, 0) ELSE Lit(FALSE, n, 0)

FNegDef(x) == IF x.cls = "nan" THEN x ELSE [x EXCEPT !.neg = ~x.neg]

\* abs(x)
FAbsDef(x) == IF x.cls = "nan" THEN x ELSE [x EXCEPT !.neg = FALSE]

\* -1, 0, 1 as |x| < |y|, |x| = |y|, |x| > |y|, for x and y not nan
MagCmpDef(x, y) ==
  IF x.cls = "inf" \/ y.cls = "inf"
  THEN (IF x.cls = y.cls THEN 0 ELSE IF x.cls = "inf" THEN 1 ELSE -1)
  ELSE IF x.m = <<>> \/ y.m = <<>>
  THEN (IF x.m = y.m THEN 0 ELSE IF x.m = <<>> THEN -1 ELSE 1)
  ELSE LET tx == BBitLen(x.m) + x.e
           ty == BBitLen(y.m) + y.e
           lo == Min(x.e, y.e)
       IN  IF tx < ty THEN -1
           ELSE IF tx > ty THEN 1
           ELSE BCmp(BShl(x.m, x.e - lo), BShl(y.m, y.e - lo))

\* x < y
FLtDef(x, y) ==
  IF x.cls = "nan" \/ y.cls = "nan" THEN FALSE
  ELSE IF IsZero(x) /\ IsZero(y) THEN FALSE
  ELSE IF x.neg /\ ~y.neg THEN TRUE
  ELSE IF ~x.neg /\ y.neg THEN FALSE
  ELSE IF x.neg THEN MagCmp(x, y) = 1
  ELSE MagCmp(x, y) = -1

\* x == y
FEqDef(x, y) ==
  IF x.cls = "nan" \/ y.cls = "nan" THEN FALSE
  ELSE IF IsZero(x) /\ IsZero(y) THEN TRUE
  ELSE x.neg = y.neg /\ MagCmp(x, y) = 0

\* x * y
FMulDef(x, y) ==
  LET neg == x.neg # y.neg
  IN  IF x.cls = "nan" \/ y.cls = "nan" THEN FNaN
      ELSE IF x.cls = "inf" \/ y.cls = "inf"
      THEN (IF IsZero(x) \/ IsZero(y) THEN FNaN ELSE FInf(neg))
      ELSE RoundBits(neg, BMul(x.m, y.m), FALSE, x.e + y.e)

\* x / y for y # 0 (Python raises ZeroDivisionError on a zero divisor)
FDivDef(x, y) ==
  LET neg == x.neg # y.neg
  IN  IF x.cls = "nan" \/ y.cls = "nan" THEN FNaN
      ELSE IF x.cls = "inf"
      THEN (IF y.cls = "inf" THEN FNaN ELSE FInf(neg))
      ELSE IF y.cls = "inf" THEN FZero(neg)
      ELSE RoundRat(neg, x.m, y.m, x.e - y.e)

\* x + y
FAddDef(x, y) ==
  IF x.cls = "nan" \/ y.cls = "nan" THEN FNaN
  ELSE IF x.cls = "inf"
  THEN (IF y.cls = "inf" /\ y.neg # x.neg THEN FNaN ELSE x)
  ELSE IF y.cls = "inf" THEN y
  ELSE IF IsZero(x) /\ IsZero(y) THEN FZero(x.neg /\ y.neg)
  ELSE IF IsZero(x) THEN y
  ELSE IF IsZero(y) THEN x
  ELSE
    LET lo == Min(x.e, y.e)
        a  == BShl(x.m, x.e - lo)
        b  == BShl(y.m, y.e - lo)
        c  == BCmp(a, b)
    IN  IF x.neg = y.neg THEN RoundBits(x.neg, BAdd(a, b), FALSE, lo)
        ELSE IF c = 0 THEN FZero(FALSE)
        ELSE IF c > 0 THEN RoundBits(x.neg, BSub(a, b), FALSE, lo)
        ELSE RoundBits(y.neg, BSub(b, a), FALSE, lo)

\* x - y
FSubDef(x, y) == FAdd(x, FNeg(y))

\* round(x, ndigits) for ndigits >= 0: the exact value of x is rounded to
\* ndigits decimal places, ties to even, and the decimal result is converted
\* back to the nearest float.
PyRoundDef(x, ndigits) ==
  IF x.cls # "fin" \/ x.m = <<>> \/ x.e >= 0 THEN x
  ELSE
    LET n    == BMul(x.m, BPow10(ndigits))
        sh   == 0 - x.e
        keep == BShr(n, sh)
        half == BBit(n, sh - 1) = 1
        rest == BLowBits(n, sh - 1)
        q    == IF half /\ (rest \/ BOdd(keep)) THEN BAdd(keep, <<1>>) ELSE keep
    IN  RoundRat(x.neg, q, BPow10(ndigits), 0)

\* the largest float below x, for a finite x > 0
FBelowDef(x) ==
  IF BBitLen(x.m) = MantBits /\ BLowBits(x.m, MantBits - 1) = FALSE /\ x.e > EMin
  THEN [x EXCEPT !.m = BSub(BShl(x.m, 1), <<1>>), !.e = x.e - 1]
  ELSE IF x.m = <<1>> THEN FZero(FALSE)
  ELSE [x EXCEPT !.m = BSub(x.m, <<1>>)]

(***************************************************************************)
(* Constants and supported categories                                      *)
(***************************************************************************)
\* Python's None where a scale factor is expected, and where a string is
None == [cls |-> "none", neg |-> FALSE, m |-> <<>>, e |-> 0]

NoneStr == "None"

UNIT_CATEGORIESDef ==
  ("length" :>
     [units |-> ("meters" :> Lit(FALSE, 1, 0)) @@
                ("kilometers" :> Lit(FALSE, 1000, 0)) @@
                ("centimeters" :> Lit(FALSE, 1, -2)) @@
                ("millimeters" :> Lit(FALSE, 1, -3)) @@
                ("miles" :> Lit(FALSE, 1609344, -3)) @@
                ("yards" :> Lit(FALSE, 9144, -4)) @@
                ("feet" :> Lit(FALSE, 3048, -4)) @@
                ("inches" :> Lit(FALSE, 254, -4)),
      display |-> "Length"]) @@
  ("weight" :>
     [units |-> ("kilograms" :> Lit(FALSE, 1, 0)) @@
                ("grams" :> Lit(FALSE, 1, -3)) @@
                ("milligrams" :> Lit(FALSE, 1, -6)) @@
                ("pounds" :> Lit(FALSE, 45359237, -8)) @@
                ("ounces" :> Lit(FALSE, 283495231, -10)) @@
                ("stones" :> Lit(FALSE, 635029318, -8)) @@
                ("tons" :> Lit(FALSE, 1000, 0)),
      display |-> "Weight"]) @@
  ("temperature" :>
     [units |-> ("celsius" :> None) @@
                ("fahrenheit" :> None) @@
                ("kelvin" :> None),
      display |-> "Temperature"]) @@
  ("speed" :>
     [units |-> ("m/s" :> Lit(FALSE, 1, 0)) @@
                ("km/h" :> Lit(FALSE, 277778, -6)) @@
                ("mph" :> Lit(FALSE, 44704, -5)) @@
                ("ft/s" :> Lit(FALSE, 3048, -4)) @@
                ("knots" :> Lit(FALSE, 514444, -6)),
      display |-> "Speed"])

\* the values of the Literal type of UnitConversionRequest.category
CategoryLiteral == {"length", "weight", "temperature", "speed"}

(***************************************************************************)
(* Business logic.  A call returns [ok |-> TRUE, val |-> float] or, when   *)
(* Python raises, [ok |-> FALSE, exc |-> the exception's class].           *)
(***************************************************************************)
Return(v) == [ok |-> TRUE, val |-> v, exc |-> ""]

Raise(exc) == [ok |-> FALSE, val |-> FNaN, exc |-> exc]

\* value * units[from_unit] / units[to_unit], with Python's exceptions: a
\* missing key, a None operand, a zero divisor
ScaleConvertDef(units, value, from_unit, to_unit) ==
  IF from_unit \notin DOMAIN units THEN Raise("KeyError")
  ELSE IF units[from_unit].cls = "none" THEN Raise("TypeError")
  ELSE IF to_unit \notin DOMAIN units THEN Raise("KeyError")
  ELSE IF units[to_unit].cls = "none" THEN Raise("TypeError")
  ELSE IF IsZero(units[to_unit]) THEN Raise("ZeroDivisionError")
  ELSE Return(FDiv(FMul(value, units[from_unit]), units[to_unit]))

\* convert_temperature without the shortcut for from_unit = to_unit: every
\* conversion goes through Celsius
convert_temperature_through_celsius(value, from_unit, to_unit) ==
  IF from_unit \notin {"celsius", "fahrenheit", "kelvin"}
  THEN Raise("ValueError")
  ELSE
    LET c == IF from_unit = "celsius" THEN value
             ELSE IF from_unit = "fahrenheit"
             THEN FDiv(FMul(FSub(value, FInt(32)), FInt(5)), FInt(9))
             ELSE FSub(value, Lit(FALSE, 27315, -2))
    IN  IF to_unit = "celsius" THEN Return(c)
        ELSE IF to_unit = "fahrenheit"
        THEN Return(FAdd(FDiv(FMul(c, FInt(9)), FInt(5)), FInt(32)))
        ELSE IF to_unit = "kelvin" THEN Return(FAdd(c, Lit(FALSE, 27315, -2)))
        ELSE Raise("ValueError")

convert_temperatureDef(value, from_unit, to_unit) ==
  IF from_unit = to_unit THEN Return(value)
  ELSE IF from_unit \notin {"celsius", "fahrenheit", "kelvin"}
  THEN Raise("ValueError")
  ELSE
    LET c == IF from_unit = "celsius" THEN value
             ELSE IF from_unit = "fahrenheit"
             THEN FDiv(FMul(FSub(value, FInt(32)), FInt(5)), FInt(9))
             ELSE FSub(value, Lit(FALSE, 27315, -2))
    IN  IF to_unit = "celsius" THEN Return(c)
        ELSE IF to_unit = "fahrenheit"
        THEN Return(FAdd(FDiv(FMul(c, FInt(9)), FInt(5)), FInt(32)))
        ELSE IF to_unit = "kelvin" THEN Return(FAdd(c, Lit(FALSE, 27315, -2)))
        ELSE Raise("ValueError")

\* round_result comparing value, not abs(value), with the thresholds
round_result_signed(value) ==
  IF FLt(value, Lit(FALSE, 1, -6)) THEN FZero(FALSE)
  ELSE IF FLt(value, FInt(1)) THEN PyRound(value, 6)
  ELSE IF FLt(value, FInt(100)) THEN PyRound(value, 4)
  ELSE IF FLt(value, FInt(10000)) THEN PyRound(value, 2)
  ELSE PyRound(value, 1)

round_resultDef(value) ==
  IF FLt(FAbs(value), Lit(FALSE, 1, -6)) THEN FZero(FALSE)
  ELSE IF FLt(FAbs(value), FInt(1)) THEN PyRound(value, 6)
  ELSE IF FLt(FAbs(value), FInt(100)) THEN PyRound(value, 4)
  ELSE IF FLt(FAbs(value), FInt(10000)) THEN PyRound(value, 2)
  ELSE PyRound(value, 1)

Call(f, a) ==
  CASE f = "UNIT_CATEGORIES" -> UNIT_CATEGORIESDef
    [] f = "BNorm" -> BNormDef(a[1])
    [] f = "BFromInt" -> BFromIntDef(a[1])
    [] f = "BShlLimbs" -> BShlLimbsDef(a[1], a[2])
    [] f = "BAdd" -> BAddDef(a[1], a[2])
    [] f = "BSub" -> BSubDef(a[1], a[2])
    [] f = "BCmp" -> BCmpDef(a[1], a[2])
    [] f = "BMulInt" -> BMulIntDef(a[1], a[2])
    [] f = "SumFn" -> SumFnDef(a[1], a[2], a[3])
    [] f = "BMul" -> BMulDef(a[1], a[2])
    [] f = "BShl" -> BShlDef(a[1], a[2])
    [] f = "BShr" -> BShrDef(a[1], a[2])
    [] f = "IntBitLen" -> IntBitLenDef(a[1])
    [] f = "BBitLen" -> BBitLenDef(a[1])
    [] f = "BBit" -> BBitDef(a[1], a[2])
    [] f = "BLowBits" -> BLowBitsDef(a[1], a[2])
    [] f = "BOdd" -> BOddDef(a[1])
    [] f = "BDigit" -> BDigitDef(a[1], a[2], a[3], a[4])
    [] f = "BDivFrom" -> BDivFromDef(a[1], a[2], a[3])
    [] f = "BDivMod" -> BDivModDef(a[1], a[2])
    [] f = "BPow10" -> BPow10Def(a[1])
    [] f = "RoundBits" -> RoundBitsDef(a[1], a[2], a[3], a[4])
    [] f = "RoundRat" -> RoundRatDef(a[1], a[2], a[3], a[4])
    [] f = "Lit" -> LitDef(a[1], a[2], a[3])
    [] f = "FInt" -> FIntDef(a[1])
    [] f = "FNeg" -> FNegDef(a[1])
    [] f = "FAbs" -> FAbsDef(a[1])
    [] f = "MagCmp" -> MagCmpDef(a[1], a[2])
    [] f = "FLt" -> FLtDef(a[1], a[2])
    [] f = "FEq" -> FEqDef(a[1], a[2])
    [] f = "FMul" -> FMulDef(a[1], a[2])
    [] f = "FDiv" -> FDivDef(a[1], a[2])
    [] f = "FAdd" -> FAddDef(a[1], a[2])
    [] f = "FSub" -> FSubDef(a[1], a[2])
    [] f = "PyRound" -> PyRoundDef(a[1], a[2])
    [] f = "FBelow" -> FBelowDef(a[1])
    [] f = "ScaleConvert" -> ScaleConvertDef(a[1], a[2], a[3], a[4])
    [] f = "convert_temperature" -> convert_temperatureDef(a[1], a[2], a[3])
    [] f = "round_result" -> round_resultDef(a[1])

UNIT_CATEGORIES == Call("UNIT_CATEGORIES", <<>>)

SUPPORTED_UNIT_CATEGORIES == DOMAIN UNIT_CATEGORIES

convert_length(value, from_unit, to_unit) ==
  ScaleConvert(UNIT_CATEGORIES["length"].units, value, from_unit, to_unit)

convert_weight(value, from_unit, to_unit) ==
  ScaleConvert(UNIT_CATEGORIES["weight"].units, value, from_unit, to_unit)

convert_speed(value, from_unit, to_unit) ==
  ScaleConvert(UNIT_CATEGORIES["speed"].units, value, from_unit, to_unit)

\* CONVERSION_FUNC[category](value, from_unit, to_unit)
CONVERSION_FUNC(category, value, from_unit, to_unit) ==
  CASE category = "length" -> convert_length(value, from_unit, to_unit)
    [] category = "weight" -> convert_weight(value, from_unit, to_unit)
    [] category = "temperature" -> convert_temperature(value, from_unit, to_unit)
    [] category = "speed" -> convert_speed(value, from_unit, to_unit)

(***************************************************************************)
(* JSON values of the provider's bodies, and HTTP responses                *)
(***************************************************************************)
JNull == [t |-> "null"]

JBool(b) == [t |-> "bool", v |-> b]

JNum(x) == [t |-> "num", v |-> x]

JStr(x) == [t |-> "str", v |-> x]

JList == [t |-> "list"]

\* a JSON object: f maps its keys to JSON values
JObj(f) == [t |-> "obj", v |-> f]

EmptyObj == [k \in {} |-> JNull]

\* bool(j) of a parsed JSON value
Truthy(j) ==
  CASE j.t = "null" -> FALSE
    [] j.t = "bool" -> j.v
    [] j.t = "num" -> ~IsZero(j.v)
    [] j.t = "str" -> j.v # ""
    [] j.t = "list" -> FALSE
    [] j.t = "obj" -> DOMAIN j.v # {}

\* dict.get(key, default)
Get(obj, key, default) == IF key \in DOMAIN obj.v THEN obj.v[key] ELSE default

\* raise HTTPException(status_code, detail), rendered by
\* custom_http_exception_handler
custom_http_exception_handler(status_code, detail) ==
  [status |-> status_code, body |-> [detail |-> detail]]

\* an exception no handler catches: the framework answers 500
ServerError == [status |-> 500, body |-> [text |-> "Internal Server Error"]]

\* a request body the framework rejects before the handler runs
RequestValidationError(errors) ==
  [status |-> 422, body |-> [detail |-> errors]]

\* a returned response model, rendered as JSON; a float that is not finite
\* cannot be rendered and the request fails
JSONResponse(content, numbers) ==
  IF \A x \in numbers : IsFinite(x)
  THEN [status |-> 200, body |-> content]
  ELSE ServerError

(***************************************************************************)
(* POST /convert                                                           *)
(***************************************************************************)
\* validate_units without the check of to_unit
validate_units_without_to_unit(values) ==
  IF values.category \notin DOMAIN UNIT_CATEGORIES THEN "Invalid category"
  ELSE IF values.from_unit \notin DOMAIN UNIT_CATEGORIES[values.category].units
  THEN "from_unit not valid"
  ELSE "ok"

\* validate_units without the check of from_unit
validate_units_without_from_unit(values) ==
  IF values.category \notin DOMAIN UNIT_CATEGORIES THEN "Invalid category"
  ELSE IF values.to_unit \notin DOMAIN UNIT_CATEGORIES[values.category].units
  THEN "to_unit not valid"
  ELSE "ok"

\* UnitConversionRequest.validate_units, the root validator; values holds
\* the fields that passed their own validation (a failed one is missing)
validate_units(values) ==
  LET category  == values.category
      from_unit == values.from_unit
      to_unit   == values.to_unit
  IN  IF category \notin DOMAIN UNIT_CATEGORIES THEN "Invalid category"
      ELSE LET units == UNIT_CATEGORIES[category].units
           IN  IF from_unit \notin DOMAIN units THEN "from_unit not valid"
               ELSE IF to_unit \notin DOMAIN units THEN "to_unit not valid"
               ELSE "ok"

\* The validation of a body as a UnitConversionRequest: the field types
\* first, then the root validator (which runs on the fields that passed).
UnitConversionRequest(body) ==
  LET fieldErrors == IF body.category \in CategoryLiteral THEN {}
                     ELSE {"category: unexpected value"}
      values == [body EXCEPT !.category =
                   IF body.category \in CategoryLiteral THEN body.category
                   ELSE NoneStr]
      root == validate_units(values)
  IN  fieldErrors \cup (IF root = "ok" THEN {} ELSE {root})

NoCall ==
  [invoked |-> FALSE, category |-> NoneStr, from_unit |-> NoneStr,
   to_unit |-> NoneStr, raised |-> FALSE, result |-> FNaN]

\* convert_units returning the result of the conversion as it is
convert_units_unrounded(request) ==
  LET r == CONVERSION_FUNC(request.category, request.value,
                           request.from_unit, request.to_unit)
      call == [invoked |-> TRUE, category |-> request.category,
               from_unit |-> request.from_unit, to_unit |-> request.to_unit,
               raised |-> ~r.ok, result |-> r.val]
  IN  IF ~r.ok
      THEN [resp |-> custom_http_exception_handler(400, JStr(r.exc)),
            call |-> call]
      ELSE [resp |-> JSONResponse(
                       [category |-> request.category,
                        from_unit |-> request.from_unit,
                        to_unit |-> request.to_unit,
                        input_value |-> request.value,
                        converted_value |-> r.val],
                       {request.value, r.val}),
            call |-> call]

\* the handler: what it answers, and the call of the conversion function
convert_units(request) ==
  LET r == CONVERSION_FUNC(request.category, request.value,
                           request.from_unit, request.to_unit)
      call == [invoked |-> TRUE, category |-> request.category,
               from_unit |-> request.from_unit, to_unit |-> request.to_unit,
               raised |-> ~r.ok, result |-> r.val]
  IN  IF ~r.ok
      THEN [resp |-> custom_http_exception_handler(400, JStr(r.exc)),
            call |-> call]
      ELSE LET converted_value == round_result(r.val)
           IN  [resp |-> JSONResponse(
                           [category |-> request.category,
                            from_unit |-> request.from_unit,
                            to_unit |-> request.to_unit,
                            input_value |-> request.value,
                            converted_value |-> converted_value],
                           {request.value, converted_value}),
                call |-> call]

(***************************************************************************)
(* The currency provider.  An outbound call ends in one of these ways.     *)
(***************************************************************************)
\* a client built with timeout=None
ClientWithoutTimeout == FALSE

\* httpx.AsyncClient() is built without a timeout argument, so the library's
\* default timeout applies to the call
ClientHasTimeout == TRUE

Outcome(kind, data) == [kind |-> kind, data |-> data]

Pending == Outcome("pending", JNull)

NoUpstream == Outcome("none", JNull)

\* the outbound call without response.raise_for_status()
RaisesWithoutStatusCheck(outcome) ==
  outcome.kind \in {"network_error", "timeout", "bad_json"}

\* what `await client.get(...)`, raise_for_status() and json() raise
Raises(outcome) ==
  outcome.kind \in {"network_error", "timeout", "http_error", "bad_json"}

\* upper() of the currency codes of the requests
Upper(code) ==
  CASE code = "usd" -> "USD"
    [] code = "eur" -> "EUR"
    [] OTHER -> code

\* POST /currency/convert after the provider's answer (or failure)
convert_currency(req, outcome) ==
  LET from_curr == Upper(req.from_currency)
      to_curr   == Upper(req.to_currency)
      amount    == req.amount
      data      == outcome.data
  IN  IF Raises(outcome)
      THEN custom_http_exception_handler(
             502, [prefix |-> "Currency API error", error |-> JStr(outcome.kind)])
      ELSE IF data.t # "obj" THEN ServerError
      ELSE IF ~Truthy(Get(data, "success", JBool(TRUE)))
      THEN custom_http_exception_handler(
             400, [prefix |-> "Currency conversion failed",
                   error |-> Get(data, "error", JStr("Unknown error"))])
      \* `"rate" in data["info"]` raises TypeError when info is null (the
      \* info of a modelled body is absent, null or an object)
      ELSE IF "info" \in DOMAIN data.v /\ data.v["info"].t # "obj"
      THEN ServerError
      ELSE
        LET rate == IF "info" \in DOMAIN data.v
                       /\ "rate" \in DOMAIN data.v["info"].v
                    THEN data.v["info"].v["rate"] ELSE JNull
            converted == Get(data, "result", JNull)
        IN  IF converted = JNull \/ rate = JNull
            THEN custom_http_exception_handler(
                   502, [prefix |-> "Currency API returned incomplete data",
                         error |-> JNull])
            ELSE IF converted.t # "num" \/ rate.t # "num" THEN ServerError
            ELSE JSONResponse(
                   [from_currency |-> from_curr,
                    to_currency |-> to_curr,
                    input_amount |-> amount,
                    converted_amount |-> round_result(converted.v),
                    rate |-> round_result(rate.v)],
                   {amount, round_result(converted.v), round_result(rate.v)})

\* the currency codes in sorted order
CodeOrder == <<"EUR", "GBP", "USD">>

\* sorted(keys)
Sorted(keys) == SelectSeq(CodeOrder, LAMBDA c : c \in keys)

\* GET /currency/symbols after the provider's answer (or failure)
get_currency_symbols(outcome) ==
  LET data == outcome.data
  IN  IF Raises(outcome) THEN ServerError
      ELSE IF data.t # "obj" THEN ServerError
      ELSE LET symbols == Get(data, "symbols", JObj(EmptyObj))
           IN  IF symbols.t # "obj" THEN ServerError
               ELSE [status |-> 200, body |-> [list |-> Sorted(DOMAIN symbols.v)]]

(***************************************************************************)
(* Inputs                                                                  *)
(***************************************************************************)
\* the inputs of round_result have up to MaxScale decimal places
MaxScale == 8

\* the whole numbers given to the conversion functions are -MaxWhole..MaxWhole
MaxWhole == 3

AllUnits == UNION {DOMAIN UNIT_CATEGORIES[c].units : c \in DOMAIN UNIT_CATEGORIES}

Thresholds == {Lit(FALSE, 1, -6), FInt(1), FInt(100), FInt(10000)}

RoundDigits == {0, 1, 5, 25, 45, 50, 100, 2675, 10000, 12345, 99999995, 123456789}

RoundValues ==
  {Lit(neg, d, 0 - k) : neg \in BOOLEAN, d \in RoundDigits, k \in 0..MaxScale}
  \cup {FBelow(t) : t \in Thresholds}
  \cup {FNeg(FBelow(t)) : t \in Thresholds}
  \cup {FInf(FALSE), FInf(TRUE)}

EngineValues ==
  {FInt(n) : n \in (0 - MaxWhole)..MaxWhole}
  \cup {FInt(7), FInt(-40), FInt(100), FInt(212), Lit(FALSE, 1, -1),
        Lit(FALSE, 27315, -2), Lit(FALSE, 1, 308), Lit(FALSE, 5, -324)}

EngineArgs ==
  UNION {[fn : {"convert"}, category : {c}, from_unit : DOMAIN UNIT_CATEGORIES[c].units,
          to_unit : DOMAIN UNIT_CATEGORIES[c].units, value : EngineValues]
         : c \in DOMAIN UNIT_CATEGORIES}

ConvertValues == {FInt(0), FInt(7), Lit(TRUE, 25, -1), Lit(FALSE, 1, 308)}

ConvertBodies ==
  [category : CategoryLiteral \cup {"volume"},
   from_unit : AllUnits \cup {"parsecs"},
   to_unit : AllUnits \cup {"parsecs"},
   value : ConvertValues]

CurrencyBodies ==
  [from_currency : {"usd", "EUR"}, to_currency : {"GBP"},
   amount : {FInt(100), FInt(0)}]

Opt(key, S) == {EmptyObj} \cup {key :> v : v \in S}

ProviderResult == Lit(FALSE, 851234567, -7)

ProviderRate == Lit(FALSE, 851234567, -9)

Failures ==
  {Outcome(k, JNull) : k \in {"network_error", "http_error", "bad_json"}}

ConvertAnswers ==
  Failures \cup {Outcome("json", JList)} \cup
  {Outcome("json", JObj(a @@ b @@ c @@ d)) :
     a \in Opt("success", {JBool(TRUE), JBool(FALSE)}),
     b \in Opt("error", {JStr("invalid currency")}),
     c \in Opt("info", {JNull, JObj(EmptyObj), JObj("rate" :> JNull),
                        JObj("rate" :> JNum(ProviderRate))}),
     d \in Opt("result", {JNull, JNum(ProviderResult)})}

SymbolsAnswers ==
  Failures \cup {Outcome("json", JList)} \cup
  {Outcome("json", JObj(a)) :
     a \in Opt("symbols",
               {JNull, JObj(EmptyObj),
                JObj(("USD" :> JStr("United States Dollar")) @@
                     ("EUR" :> JStr("Euro"))),
                JObj(("USD" :> JStr("United States Dollar")) @@
                     ("GBP" :> JStr("British Pound Sterling")) @@
                     ("EUR" :> JStr("Euro")))})}

(***************************************************************************)
(* State.  One request is followed from its arrival to its response.       *)
(*   pc        "idle", "awaiting" (the handler is suspended in             *)
(*             `await client.get`) or "done" (the response is ready)       *)
(*   req       the request: its endpoint and body                          *)
(*   upstream  the outbound call to the currency provider                  *)
(*   call      the call of the conversion function made by POST /convert   *)
(*   resp      the response                                                *)
(*   args, ret the arguments and the result of a direct call of a pure     *)
(*             function (round_result, the conversion functions)           *)
(***************************************************************************)
VARIABLES pc, req, upstream, call, resp, args, ret

vars == <<pc, req, upstream, call, resp, args, ret>>

NoReq == [endpoint |-> "none", body |-> EmptyObj]

NoResp == [status |-> 0, body |-> [text |-> ""]]

NoArgs == [fn |-> "none"]

NoRet == [ok |-> FALSE, val |-> FNaN, exc |-> "not called"]

Init ==
  /\ pc = "idle"
  /\ req = NoReq
  /\ upstream = NoUpstream
  /\ call = NoCall
  /\ resp = NoResp
  /\ args = NoArgs
  /\ ret = NoRet

\* POST /convert: the body is validated, then the handler runs
PostConvert(body) ==
  /\ pc = "idle"
  /\ LET errors == UnitConversionRequest(body)
         h == convert_units(body)
     IN  /\ resp' = IF errors # {} THEN RequestValidationError(errors) ELSE h.resp
         /\ call' = IF errors # {} THEN NoCall ELSE h.call
  /\ req' = [endpoint |-> "convert", body |-> body]
  /\ pc' = "done"
  /\ UNCHANGED <<upstream, args, ret>>

\* POST /currency/convert up to `await client.get`: the body is validated
\* (amount > 0) and the provider is called
PostCurrencyConvert(body) ==
  /\ pc = "idle"
  /\ req' = [endpoint |-> "currency_convert", body |-> body]
  /\ IF FLt(FInt(0), body.amount)
     THEN /\ pc' = "awaiting"
          /\ upstream' = Pending
          /\ UNCHANGED resp
     ELSE /\ pc' = "done"
          /\ resp' = RequestValidationError({"amount: not greater than 0"})
          /\ UNCHANGED upstream
  /\ UNCHANGED <<call, args, ret>>

\* GET /currency/symbols up to `await client.get`
GetCurrencySymbols ==
  /\ pc = "idle"
  /\ req' = [endpoint |-> "currency_symbols", body |-> EmptyObj]
  /\ pc' = "awaiting"
  /\ upstream' = Pending
  /\ UNCHANGED <<call, resp, args, ret>>

\* the suspended handler resumes with the outcome of the outbound call and
\* runs to its end
Resume(outcome) ==
  /\ upstream' = outcome
  /\ resp' = IF req.endpoint = "currency_convert"
             THEN convert_currency(req.body, outcome)
             ELSE get_currency_symbols(outcome)
  /\ pc' = "done"
  /\ UNCHANGED <<req, call, args, ret>>

\* the provider answers, or the call fails
UpstreamAnswers ==
  /\ pc = "awaiting"
  /\ \E outcome \in IF req.endpoint = "currency_convert"
                    THEN ConvertAnswers ELSE SymbolsAnswers :
       Resume(outcome)

\* no answer within the client's timeout: the call raises a timeout error
UpstreamTimeout ==
  /\ pc = "awaiting"
  /\ ClientHasTimeout
  /\ Resume(Outcome("timeout", JNull))

\* the response is sent; nothing of the request is kept
Respond ==
  /\ pc = "done"
  /\ pc' = "idle"
  /\ req' = NoReq
  /\ upstream' = NoUpstream
  /\ call' = NoCall
  /\ resp' = NoResp
  /\ UNCHANGED <<args, ret>>

Next ==
  \/ \E body \in ConvertBodies : PostConvert(body)
  \/ \E body \in CurrencyBodies : PostCurrencyConvert(body)
  \/ GetCurrencySymbols
  \/ UpstreamAnswers
  \/ UpstreamTimeout
  \/ Respond

Spec == Init /\ [][Next]_vars

\* the event loop runs a handler whose awaited call has completed, fires the
\* client's timeout, and sends a ready response
FairSpec ==
  Spec /\ WF_vars(UpstreamTimeout) /\ WF_vars(Respond)

(***************************************************************************)
(* Direct calls of the pure functions                                      *)
(***************************************************************************)
InitRound ==
  /\ pc = "idle" /\ req = NoReq /\ upstream = NoUpstream
  /\ call = NoCall /\ resp = NoResp
  /\ args \in [fn : {"round_result"}, value : RoundValues]
  /\ ret = NoRet

ApplyRound ==
  /\ args.fn = "round_result"
  /\ ret = NoRet
  /\ ret' = Return(round_result(args.value))
  /\ UNCHANGED <<pc, req, upstream, call, resp, args>>

SpecRound == InitRound /\ [][ApplyRound]_vars

InitEngine ==
  /\ pc = "idle" /\ req = NoReq /\ upstream = NoUpstream
  /\ call = NoCall /\ resp = NoResp
  /\ args \in EngineArgs
  /\ ret = NoRet

ApplyConvert ==
  /\ args.fn = "convert"
  /\ ret = NoRet
  /\ ret' = CONVERSION_FUNC(args.category, args.value,
                            args.from_unit, args.to_unit)
  /\ UNCHANGED <<pc, req, upstream, call, resp, args>>

SpecEngine == InitEngine /\ [][ApplyConvert]_vars

(***************************************************************************)
(* Properties                                                              *)
(***************************************************************************)
\* the request is a POST /convert whose category is not a known category,
\* or whose from_unit or to_unit is not a unit of its category
InvalidCombination ==
  /\ req.endpoint = "convert"
  /\ \/ req.body.category \notin {"length", "weight", "temperature", "speed"}
     \/ req.body.from_unit \notin DOMAIN UNIT_CATEGORIES[req.body.category].units
     \/ req.body.to_unit \notin DOMAIN UNIT_CATEGORIES[req.body.category].units

\* C1, as amended: a POST /convert with an unknown category, or with a
\* from_unit or to_unit that is not a unit of the category, is answered with
\* the client error 422 of the request validation; it is never answered with
\* a 5xx, never with a converted_value, and the conversion is not called.
C1_InvalidRequestIs422 ==
  (pc = "done" /\ InvalidCombination) =>
    /\ resp.status = 422
    /\ resp.status \in 400..499
    /\ "converted_value" \notin DOMAIN resp.body
    /\ ~call.invoked

\* C1 as stated: the answer to such a request has status 400 (and no
\* converted_value).
C1_InvalidRequestIs400 ==
  (pc = "done" /\ InvalidCombination) =>
    /\ resp.status = 400
    /\ "converted_value" \notin DOMAIN resp.body

\* a request for length with a to_unit of no category has been answered
C1_Witness ==
  /\ pc = "done"
  /\ InvalidCombination
  /\ req.body.category = "length"
  /\ req.body.from_unit = "feet"
  /\ req.body.to_unit = "parsecs"
  /\ resp.status = 422

\* C2: a POST /currency/convert whose outbound call fails (network error,
\* non-success status, unparsable body, timeout) is answered with 502, and
\* an answer that reports an error has no converted_amount and no rate.
C2_UpstreamFailureIs502 ==
  (pc = "done" /\ req.endpoint = "currency_convert") =>
    /\ upstream.kind \in {"network_error", "http_error", "bad_json", "timeout"}
         => resp.status = 502
    /\ resp.status # 200
         => /\ "converted_amount" \notin DOMAIN resp.body
            /\ "rate" \notin DOMAIN resp.body

\* the provider has answered a currency conversion with a non-success status
C2_Witness ==
  /\ pc = "done"
  /\ req.endpoint = "currency_convert"
  /\ upstream.kind = "http_error"
  /\ resp.status = 502
  /\ DOMAIN resp.body = {"detail"}

\* C3: in both endpoints that call the provider, an upstream failure (the
\* call raises, or the body lacks the expected field) is answered with 502.
C3_EveryUpstreamFailureIs502 ==
  (pc = "done" /\ req.endpoint \in {"currency_convert", "currency_symbols"}) =>
    /\ upstream.kind \in {"network_error", "http_error", "bad_json", "timeout"}
         => resp.status = 502
    /\ (/\ req.endpoint = "currency_symbols"
        /\ upstream.kind = "json"
        /\ upstream.data.t = "obj"
        /\ "symbols" \notin DOMAIN upstream.data.v)
         => resp.status = 502

\* C4: when the provider's body says success is false the answer is 400 with
\* the provider's error, whatever else the body holds; when the body signals
\* no failure but has no result or no info.rate the answer is 502.
C4_ReportedFailure400_Incomplete502 ==
  (/\ pc = "done"
   /\ req.endpoint = "currency_convert"
   /\ upstream.kind = "json"
   /\ upstream.data.t = "obj") =>
    LET data == upstream.data.v
        failure == "success" \in DOMAIN data /\ data["success"] = JBool(FALSE)
        hasResult == "result" \in DOMAIN data /\ data["result"] # JNull
        hasRate == /\ "info" \in DOMAIN data
                   /\ data["info"].t = "obj"
                   /\ "rate" \in DOMAIN data["info"].v
                   /\ data["info"].v["rate"] # JNull
    IN  /\ failure =>
              /\ resp.status = 400
              /\ resp.body.detail.error =
                   (IF "error" \in DOMAIN data THEN data["error"]
                    ELSE JStr("Unknown error"))
        /\ (~failure /\ ~(hasResult /\ hasRate)) => resp.status = 502

\* C5: round_result(value) is chosen by |value| alone: 0 below 1e-6, then 6,
\* 4, 2 and 1 decimal places for |value| below 1, below 100, below 10000 and
\* from 10000 on; a threshold belongs to the range above it.  The examples:
\* 0.0000001 -> 0, 0.5 -> 0.5, 12345 -> 12345.0, 50 -> 50.0.
C5_RoundingPolicy ==
  (ret.ok /\ args.fn = "round_result") =>
    LET v == args.value
        a == FAbs(v)
        Below(t) == FLt(a, t)
        From(t) == FLt(t, a) \/ FEq(t, a)
        r == ret.val
    IN  /\ Below(Lit(FALSE, 1, -6)) => r = FZero(FALSE)
        /\ (From(Lit(FALSE, 1, -6)) /\ Below(FInt(1))) => r = PyRound(v, 6)
        /\ (From(FInt(1)) /\ Below(FInt(100))) => r = PyRound(v, 4)
        /\ (From(FInt(100)) /\ Below(FInt(10000))) => r = PyRound(v, 2)
        /\ From(FInt(10000)) => r = PyRound(v, 1)
        /\ v = Lit(FALSE, 1, -7) => r = FZero(FALSE)
        /\ v = Lit(FALSE, 5, -1) => r = Lit(FALSE, 5, -1)
        /\ v = FInt(12345) => r = FInt(12345)
        /\ v = FInt(50) => r = FInt(50)

\* round_result was called with -100, the negative of a threshold, which is
\* rounded to 2 decimal places
C5_Witness ==
  /\ ret.ok
  /\ args.fn = "round_result"
  /\ args.value = FInt(-100)
  /\ ret.val = FInt(-100)

\* C6: in a successful answer the numbers are rounded: converted_value is
\* round_result of the conversion's result, converted_amount and rate are
\* round_result of the provider's result and rate.
C6_ResultsAreRounded ==
  (pc = "done" /\ resp.status = 200) =>
    /\ req.endpoint = "convert" =>
         resp.body.converted_value =
           round_result(CONVERSION_FUNC(req.body.category, req.body.value,
                                        req.body.from_unit, req.body.to_unit).val)
    /\ req.endpoint = "currency_convert" =>
         /\ resp.body.converted_amount =
              round_result(upstream.data.v["result"].v)
         /\ resp.body.rate = round_result(upstream.data.v["info"].v["rate"].v)

\* 7 miles have been converted to kilometers: the result of the conversion,
\* 11.265407999999999, is answered as 11.2654
C6_Witness ==
  /\ pc = "done"
  /\ resp.status = 200
  /\ req.endpoint = "convert"
  /\ req.body.from_unit = "miles"
  /\ req.body.to_unit = "kilometers"
  /\ req.body.value = FInt(7)
  /\ call.result = FBelow(Lit(FALSE, 11265408, -6))
  /\ resp.body.converted_value = Lit(FALSE, 112654, -4)

C8_LinearIdentity ==
  (/\ ret.ok
   /\ args.fn = "convert"
   /\ args.category \in {"length", "weight", "speed"}
   /\ args.from_unit = args.to_unit) => ret.val = args.value

\* C9: convert_temperature returns the value when from_unit = to_unit, and
\* otherwise the value brought to Celsius ((v - 32) * 5 / 9 from fahrenheit,
\* v - 273.15 from kelvin) and from there to the target (c * 9 / 5 + 32 to
\* fahrenheit, c + 273.15 to kelvin); 0 celsius is 32 fahrenheit, 212
\* fahrenheit is 100 celsius, 0 celsius is 273.15 kelvin.
C9_TemperatureFormulas ==
  (ret # NoRet /\ args.fn = "convert" /\ args.category = "temperature") =>
    LET v == args.value
        from == args.from_unit
        to == args.to_unit
        c == CASE from = "celsius" -> v
               [] from = "fahrenheit" ->
                    FDiv(FMul(FSub(v, FInt(32)), FInt(5)), FInt(9))
               [] from = "kelvin" -> FSub(v, Lit(FALSE, 27315, -2))
        expected ==
          IF from = to THEN v
          ELSE CASE to = "celsius" -> c
                 [] to = "fahrenheit" ->
                      FAdd(FDiv(FMul(c, FInt(9)), FInt(5)), FInt(32))
                 [] to = "kelvin" -> FAdd(c, Lit(FALSE, 27315, -2))
    IN  /\ ret.ok
        /\ ret.val = expected
        /\ (from = "celsius" /\ to = "fahrenheit" /\ v = FInt(0))
             => ret.val = FInt(32)
        /\ (from = "fahrenheit" /\ to = "celsius" /\ v = FInt(212))
             => ret.val = FInt(100)
        /\ (from = "celsius" /\ to = "kelvin" /\ v = FInt(0))
             => ret.val = Lit(FALSE, 27315, -2)

\* 212 fahrenheit have been converted to 100 celsius
C9_Witness ==
  /\ ret.ok
  /\ args.fn = "convert"
  /\ args.category = "temperature"
  /\ args.from_unit = "fahrenheit"
  /\ args.to_unit = "celsius"
  /\ args.value = FInt(212)
  /\ ret.val = FInt(100)

\* C10: in POST /convert the conversion function is called only with a
\* from_unit and a to_unit of the request's category; it does not raise and
\* the handler does not answer 400.
C10_ValidationPrecedesConversion ==
  call.invoked =>
    /\ call.category \in DOMAIN UNIT_CATEGORIES
    /\ call.from_unit \in DOMAIN UNIT_CATEGORIES[call.category].units
    /\ call.to_unit \in DOMAIN UNIT_CATEGORIES[call.category].units
    /\ ~call.raised
    /\ resp.status # 400

\* the conversion function has been called for kelvin to fahrenheit
C10_Witness ==
  /\ pc = "done"
  /\ call.invoked
  /\ call.category = "temperature"
  /\ call.from_unit = "kelvin"
  /\ call.to_unit = "fahrenheit"
  /\ ~call.raised
  /\ resp.status = 200

=============================================================================
